---- MODULE Spec2Model ----
(***************************************************************************)
(* Ad-hoc protocol requirement resolution and distributed declaration      *)
(* checks of lib/Sema/TypeCheckDistributed.cpp.                            *)
(*                                                                         *)
(* Three specifications share the module:                                  *)
(*   Spec      the request cache around the ad-hoc resolutions, with       *)
(*             evaluations in flight and the Distributed module being      *)
(*             loaded while the compilation runs;                          *)
(*   SpecSweep the conformance sweep                                       *)
(*             checkDistributedActorSystemAdHocProtocolRequirements over   *)
(*             declarations with up to MaxMembers members;                 *)
(*   SpecFunc  checkDistributedFunction / checkDistributedActorProperty    *)
(*             applied to one declaration.                                 *)
(***************************************************************************)
EXTENDS Integers, Sequences, FiniteSets, TLC

VARIABLES
    decl,          \* the NominalTypeDecl under check: kind, access, members
    moduleLoaded,  \* C.getLoadedModule(C.Id_Distributed) != nullptr
    cache,         \* evaluator cache: operation -> resolved member (0 = nullptr)
    active,        \* evaluations in flight, innermost last
    scans,         \* operation -> number of member scans executed for it
    last,          \* the call that returned last, with what it returned
    target,        \* the distributed func / var handed to the declaration checks
    out            \* what the declaration check returned and emitted

vars == <<decl, moduleLoaded, cache, active, scans, last, target, out>>

(***************************************************************************)
(* Bounds.                                                                 *)
(***************************************************************************)
\* members of a declaration in SpecSweep
MaxMembers == 3
\* members of a declaration in Spec
MaxCachedMembers == 2
\* evaluations in flight at once
MaxDepth == 2
\* parameters of a distributed function
MaxParams == 2
\* parameters of an initializer of a distributed actor
MaxInitParams == 3
\* decodeNextArgument members of an invocation decoder
MaxDecoderMembers == 2
\* nesting depth of the conjunctions of a requirement expression
MaxNesting == 2

SeqUpTo(S, n) ==
    UNION {[1..k -> S] : k \in 0..n}

Range(s) ==
    {s[i] : i \in 1..Len(s)}

(***************************************************************************)
(* Access levels (swift::AccessLevel), ordered by visibility.              *)
(***************************************************************************)
AccessLevels ==
    {"internal", "public", "open"}

AccessRank(a) ==
    CASE a = "internal" -> 0
      [] a = "public"   -> 1
      [] a = "open"     -> 2

\* a member's effective access never exceeds that of its enclosing type
AccessUpTo(a) ==
    {b \in AccessLevels : AccessRank(b) <= AccessRank(a)}

(***************************************************************************)
(* Protocols and the serialization requirement.                            *)
(***************************************************************************)
Codable ==
    {"Encodable", "Decodable"}

Protocols ==
    Codable \cup {"SomeProtocol"}

(***************************************************************************)
(* The ad-hoc operations and the declarations that carry them.             *)
(***************************************************************************)
SystemOps ==
    {"remoteCall", "remoteCallVoid"}

EncoderOps ==
    {"recordArgument", "recordErrorType", "recordReturnType"}

TargetOps ==
    {"init"}

AdHocOps ==
    SystemOps \cup EncoderOps

AllOps ==
    AdHocOps \cup TargetOps

\* the requests a declaration of this kind is asked for
OpsOf(kind) ==
    CASE kind = "DistributedActorSystem"             -> SystemOps
      [] kind = "DistributedTargetInvocationEncoder" -> EncoderOps
      [] OTHER                                       -> TargetOps

\* the shapes a member named `name` is drawn from; "ok" is the expected
\* signature, the others differ from it in one place
ShapesOf(name) ==
    CASE name \in SystemOps  -> {"ok", "wrongReturn", "noInvocation", "var"}
      [] name \in EncoderOps -> {"ok", "unconstrained"}
      [] OTHER               -> {"mangledName", "otherLabel", "twoParams", "method"}

\* the expected signature of each operation, as the sweep's notes print it
Template(name, sr) ==
    CASE name = "remoteCall" ->
           [isFunc |-> TRUE, generics |-> <<"Act", "Err", "Res">>,
            labels |-> <<"on", "target", "invocation", "throwing", "returning">>,
            inout |-> {"invocation"}, isAsync |-> TRUE, throws |-> TRUE,
            mutating |-> FALSE, ret |-> "Res",
            reqs |-> {<<"Act", "DistributedActor">>, <<"Err", "Error">>}
                       \cup {<<"Res", p>> : p \in sr},
            sameType |-> {<<"Act.ID", "ActorID">>}]
      [] name = "remoteCallVoid" ->
           [isFunc |-> TRUE, generics |-> <<"Act", "Err">>,
            labels |-> <<"on", "target", "invocation", "throwing">>,
            inout |-> {"invocation"}, isAsync |-> TRUE, throws |-> TRUE,
            mutating |-> FALSE, ret |-> "Void",
            reqs |-> {<<"Act", "DistributedActor">>, <<"Err", "Error">>},
            sameType |-> {<<"Act.ID", "ActorID">>}]
      [] name = "recordArgument" ->
           [isFunc |-> TRUE, generics |-> <<"Argument">>, labels |-> <<"_">>,
            inout |-> {}, isAsync |-> FALSE, throws |-> TRUE,
            mutating |-> TRUE, ret |-> "Void",
            reqs |-> {<<"Argument", p>> : p \in sr}, sameType |-> {}]
      [] name = "recordErrorType" ->
           [isFunc |-> TRUE, generics |-> <<"Err">>, labels |-> <<"_">>,
            inout |-> {}, isAsync |-> FALSE, throws |-> TRUE,
            mutating |-> TRUE, ret |-> "Void",
            reqs |-> {<<"Err", "Error">>}, sameType |-> {}]
      [] name = "recordReturnType" ->
           [isFunc |-> TRUE, generics |-> <<"Res">>, labels |-> <<"_">>,
            inout |-> {}, isAsync |-> FALSE, throws |-> TRUE,
            mutating |-> TRUE, ret |-> "Void",
            reqs |-> {<<"Res", p>> : p \in sr}, sameType |-> {}]

DropLabel(labels, l) ==
    SelectSeq(labels, LAMBDA x : x # l)

\* the signature t changed the way a shape says
Shaped(t, shape) ==
    CASE shape = "ok"            -> t
      [] shape = "wrongReturn"   -> [t EXCEPT !.ret = "String"]
      [] shape = "noInvocation"  ->
           [t EXCEPT !.labels = DropLabel(t.labels, "invocation"), !.inout = {}]
      [] shape = "unconstrained" -> [t EXCEPT !.reqs = {}]
      [] shape = "var"           -> [t EXCEPT !.isFunc = FALSE]

\* the signature of a member, from its name and shape
Features(m, sr) ==
    Shaped(Template(m.name, sr), m.shape)

ConformsTo(f, g) ==
    {r[2] : r \in {q \in f.reqs : q[1] = g}}

(***************************************************************************)
(* The structural predicates (AbstractFunctionDecl::isDistributed...).     *)
(***************************************************************************)
isDistributedActorSystemRemoteCall(f, isVoidReturn, sr) ==
    /\ f.isFunc
    /\ f.generics = (IF isVoidReturn THEN <<"Act", "Err">>
                                     ELSE <<"Act", "Err", "Res">>)
    /\ "DistributedActor" \in ConformsTo(f, "Act")
    /\ <<"Act.ID", "ActorID">> \in f.sameType
    /\ "Error" \in ConformsTo(f, "Err")
    /\ (~isVoidReturn => sr \subseteq ConformsTo(f, "Res"))
    /\ f.labels = (IF isVoidReturn
                     THEN <<"on", "target", "invocation", "throwing">>
                     ELSE <<"on", "target", "invocation", "throwing", "returning">>)
    /\ "invocation" \in f.inout
    /\ f.isAsync
    /\ f.throws
    /\ f.ret = (IF isVoidReturn THEN "Void" ELSE "Res")

isDistributedTargetInvocationEncoderRecordArgument(f, sr) ==
    /\ f.isFunc
    /\ Len(f.labels) = 1
    /\ Len(f.generics) = 1
    /\ sr \subseteq ConformsTo(f, f.generics[1])
    /\ f.throws
    /\ f.mutating

isDistributedTargetInvocationEncoderRecordReturnType(f, sr) ==
    /\ f.isFunc
    /\ Len(f.labels) = 1
    /\ Len(f.generics) = 1
    /\ sr \subseteq ConformsTo(f, f.generics[1])
    /\ f.throws
    /\ f.mutating

isDistributedTargetInvocationEncoderRecordErrorType(f) ==
    /\ f.isFunc
    /\ Len(f.labels) = 1
    /\ Len(f.generics) = 1
    /\ "Error" \in ConformsTo(f, f.generics[1])
    /\ f.throws
    /\ f.mutating

\* the predicate the request for `op` applies to a function of signature f
Predicate(op, f, sr) ==
    CASE op = "remoteCall" ->
           isDistributedActorSystemRemoteCall(f, FALSE, sr)
      [] op = "remoteCallVoid" ->
           isDistributedActorSystemRemoteCall(f, TRUE, sr)
      [] op = "recordArgument" ->
           isDistributedTargetInvocationEncoderRecordArgument(f, sr)
      [] op = "recordReturnType" ->
           isDistributedTargetInvocationEncoderRecordReturnType(f, sr)
      [] op = "recordErrorType" ->
           isDistributedTargetInvocationEncoderRecordErrorType(f)

\* the matchFn each request hands to findDistributedAdHocRequirement
MatchFn(op, m, sr) ==
    Predicate(op, Features(m, sr), sr)


(***************************************************************************)
(* Declarations.  A member is [name, shape, access]; a resolved member is  *)
(* named by its index in decl.members, 0 standing for nullptr.             *)
(***************************************************************************)
\* members named `name` a declaration of effective access `acc` may declare:
\* the expected signature at every access up to that of the type, the
\* malformed ones at the access of the type
MembersNamed(name, acc) ==
    {[name |-> name, shape |-> "ok", access |-> a] : a \in AccessUpTo(acc)}
      \cup {[name |-> name, shape |-> s, access |-> acc] :
              s \in ShapesOf(name) \ {"ok"}}

Candidates(kind, acc) ==
    UNION {MembersNamed(n, acc) : n \in OpsOf(kind)}

Decls(kinds, accs, n) ==
    UNION {UNION {{[kind |-> k, access |-> a, members |-> ms,
                    isTarget |-> t, sr |-> Codable] :
                     ms \in SeqUpTo(Candidates(k, a), n),
                     t \in (IF k = "Nominal" THEN BOOLEAN ELSE {FALSE})} :
                  a \in accs} :
           k \in kinds}

\* ctor->getParameters() of a member of the RemoteCallTarget lookup
CtorParams(m) ==
    CASE m.shape = "mangledName" -> <<"_mangledName">>
      [] m.shape = "otherLabel"  -> <<"name">>
      [] m.shape = "twoParams"   -> <<"_mangledName", "other">>
      [] OTHER                   -> <<>>

IsCtor(m) ==
    m.shape # "method"

NoDiags ==
    <<>>

Diag(kind, id, what) ==
    [kind |-> kind, id |-> id, what |-> what]

(***************************************************************************)
(* findDistributedAdHocRequirement: the first same-named direct member     *)
(* that is a function and satisfies matchFn, or nullptr; nullptr at once   *)
(* when the Distributed module is not loaded.  `evals` counts the matchFn  *)
(* calls made, `scanned` says whether lookupDirect was walked.             *)
(***************************************************************************)
SameNamedFuncs(d, identifier, upto) ==
    {i \in 1..upto : /\ d.members[i].name = identifier
                     /\ Features(d.members[i], d.sr).isFunc}

Matching(d, identifier, op) ==
    {i \in SameNamedFuncs(d, identifier, Len(d.members)) :
       MatchFn(op, d.members[i], d.sr)}

Least(S) ==
    CHOOSE i \in S : \A j \in S : i <= j

\* what the loop over lookupDirect returns when `hits` are the members that
\* satisfy matchFn: the first of them, after calling matchFn on every
\* same-named function up to it
FirstOf(d, identifier, hits) ==
    IF hits = {}
      THEN [fn |-> 0, scanned |-> 1, diags |-> NoDiags,
            evals |-> Cardinality(SameNamedFuncs(d, identifier, Len(d.members)))]
      ELSE [fn |-> Least(hits), scanned |-> 1, diags |-> NoDiags,
            evals |-> Cardinality(SameNamedFuncs(d, identifier, Least(hits)))]

FinderSkipsModuleCheck(d, loaded, identifier, op) ==
    FirstOf(d, identifier, Matching(d, identifier, op))

findDistributedAdHocRequirement(d, loaded, identifier, op) ==
    IF ~loaded
      THEN [fn |-> 0, scanned |-> 0, diags |-> NoDiags, evals |-> 0]
      ELSE FirstOf(d, identifier, Matching(d, identifier, op))

\* GetDistributedRemoteCallTargetInitFunctionRequest::evaluate
GetDistributedRemoteCallTargetInitFunction(d, loaded) ==
    LET ctors == {i \in 1..Len(d.members) : IsCtor(d.members[i])} IN
    IF ~loaded
      THEN [fn |-> 0, scanned |-> 0, diags |-> NoDiags, evals |-> 0]
      ELSE IF ~d.isTarget
        THEN [fn |-> 0, scanned |-> 0, diags |-> NoDiags, evals |-> 0]
        ELSE IF ctors = {}
          THEN [fn |-> 0, scanned |-> 1, diags |-> NoDiags, evals |-> 0]
          ELSE LET params == CtorParams(d.members[Least(ctors)]) IN
               IF Len(params) # 1
                 THEN [fn |-> 0, scanned |-> 1, diags |-> NoDiags, evals |-> 1]
                 ELSE IF params[1] = "_mangledName"
                   THEN [fn |-> Least(ctors), scanned |-> 1, diags |-> NoDiags,
                         evals |-> 1]
                   ELSE [fn |-> 0, scanned |-> 1, diags |-> NoDiags, evals |-> 1]

\* the evaluate function of the request for `op`
Evaluate(d, loaded, op) ==
    IF op \in AdHocOps
      THEN findDistributedAdHocRequirement(d, loaded, op, op)
      ELSE GetDistributedRemoteCallTargetInitFunction(d, loaded)


(***************************************************************************)
(* The request evaluator around the resolutions: a result is computed once *)
(* per (declaration, operation) and kept; a request for a key whose        *)
(* evaluation is in flight gets the default, nullptr, and caches nothing.  *)
(***************************************************************************)
MarkerProtocols ==
    {"DistributedActorSystem", "DistributedTargetInvocationEncoder",
     "DistributedTargetInvocationDecoder",
     "DistributedTargetInvocationResultHandler"}

NeverCached(c, op) ==
    FALSE

IsCached(c, op) ==
    op \in DOMAIN c

NeverInFlight(stack, op) ==
    FALSE

InFlight(stack, op) ==
    \E i \in 1..Len(stack) : stack[i].op = op

Store(c, op, fn) ==
    [x \in DOMAIN c \cup {op} |-> IF x = op THEN fn ELSE c[x]]

\* the evaluation of `op` returned r: r is cached and handed to the caller
Computed(st, op, r) ==
    [fn |-> r.fn, sentinel |-> FALSE, evals |-> r.evals,
     diags |-> r.diags, cache |-> Store(st.cache, op, r.fn),
     scans |-> [st.scans EXCEPT ![op] = @ + r.scanned]]

evaluateOrDefault(st, stack, d, loaded, op) ==
    IF IsCached(st.cache, op)
      THEN [fn |-> st.cache[op], sentinel |-> FALSE, evals |-> 0,
            diags |-> NoDiags, cache |-> st.cache, scans |-> st.scans]
      ELSE IF InFlight(stack, op)
        THEN [fn |-> 0, sentinel |-> TRUE, evals |-> 0,
              diags |-> NoDiags, cache |-> st.cache, scans |-> st.scans]
        ELSE Computed(st, op, Evaluate(d, loaded, op))

(***************************************************************************)
(* checkAdHocRequirementAccessControl                                      *)
(***************************************************************************)
checkAdHocRequirementAccessControl(d, proto, fn) ==
    IF fn = 0
      THEN [bad |-> FALSE, diags |-> NoDiags]
      ELSE IF /\ AccessRank(d.access) >= AccessRank("public")
              /\ d.members[fn].access # "public"
        THEN [bad |-> TRUE,
              diags |-> <<Diag("error", "witness_not_accessible_type",
                               d.members[fn].name)>>]
        ELSE [bad |-> FALSE, diags |-> NoDiags]

MissingDiags(op) ==
    <<Diag("error", "missing_adhoc_requirement", op),
      Diag("note", "missing_adhoc_requirement", op)>>

(***************************************************************************)
(* checkDistributedActorSystemAdHocProtocolRequirements.  The result       *)
(* carries the cache and the scan counts its resolutions leave behind.     *)
(***************************************************************************)
\* the sweep so far: anyMissingAdHocRequirements, the diagnostics emitted,
\* and the cache and scan counts the resolutions left
NothingMissing(st) ==
    [ret |-> FALSE, diags |-> NoDiags, cache |-> st.cache, scans |-> st.scans]

\* the actor-system branch once `op` has resolved to r: the missing-witness
\* report, made only when diagnosing, then the access check
RemoteCallStopsAtFirstFailure(acc, d, diagnose, op, r) ==
    LET missing == r.fn = 0 /\ diagnose /\ ~acc.ret
        access == IF acc.ret
                    THEN [bad |-> FALSE, diags |-> NoDiags]
                    ELSE checkAdHocRequirementAccessControl(
                           d, "DistributedActorSystem", r.fn)
    IN  [ret |-> acc.ret \/ missing \/ access.bad,
         diags |-> acc.diags
                     \o (IF missing THEN MissingDiags(op) ELSE NoDiags)
                     \o access.diags,
         cache |-> r.cache, scans |-> r.scans]

RemoteCallResolved(acc, d, diagnose, op, r) ==
    LET missing == r.fn = 0 /\ diagnose
        access == checkAdHocRequirementAccessControl(d, "DistributedActorSystem",
                                                     r.fn)
    IN  [ret |-> acc.ret \/ missing \/ access.bad,
         diags |-> acc.diags
                     \o (IF missing THEN MissingDiags(op) ELSE NoDiags)
                     \o access.diags,
         cache |-> r.cache, scans |-> r.scans]

CheckRemoteCall(acc, stack, d, loaded, diagnose, op) ==
    RemoteCallResolved(acc, d, diagnose, op,
                       evaluateOrDefault(acc, stack, d, loaded, op))

SweepActorSystem(st, stack, d, loaded, diagnose) ==
    CheckRemoteCall(
      CheckRemoteCall(NothingMissing(st), stack, d, loaded, diagnose, "remoteCall"),
      stack, d, loaded, diagnose, "remoteCallVoid")

\* the encoder branch once `op` has resolved to r: the missing-witness
\* report, whatever diagnose is
RecordResolvedFirstOnly(acc, op, r) ==
    [ret |-> acc.ret \/ r.fn = 0,
     diags |-> acc.diags \o (IF r.fn = 0 /\ ~acc.ret THEN MissingDiags(op)
                                                     ELSE NoDiags),
     cache |-> r.cache, scans |-> r.scans]

RecordResolved(acc, op, r) ==
    [ret |-> acc.ret \/ r.fn = 0,
     diags |-> acc.diags \o (IF r.fn = 0 THEN MissingDiags(op) ELSE NoDiags),
     cache |-> r.cache, scans |-> r.scans]

CheckRecord(acc, stack, d, loaded, op) ==
    RecordResolved(acc, op, evaluateOrDefault(acc, stack, d, loaded, op))

SweepInvocationEncoder(st, stack, d, loaded, diagnose) ==
    CheckRecord(
      CheckRecord(
        CheckRecord(NothingMissing(st), stack, d, loaded, "recordArgument"),
        stack, d, loaded, "recordErrorType"),
      stack, d, loaded, "recordReturnType")

SweepChecksEveryProtocol(st, stack, d, loaded, proto, diagnose) ==
    CASE proto = "DistributedActorSystem" ->
           SweepActorSystem(st, stack, d, loaded, diagnose)
      [] proto = "DistributedTargetInvocationEncoder" ->
           SweepInvocationEncoder(st, stack, d, loaded, diagnose)
      [] OTHER ->
           [ret |-> \A i \in 1..Len(d.members) :
                      d.members[i].name \notin {"decodeNextArgument", "onReturn"},
            diags |-> NoDiags, cache |-> st.cache, scans |-> st.scans]

checkDistributedActorSystemAdHocProtocolRequirements(st, stack, d, loaded, proto, diagnose) ==
    CASE proto = "DistributedActorSystem" ->
           SweepActorSystem(st, stack, d, loaded, diagnose)
      [] proto = "DistributedTargetInvocationEncoder" ->
           SweepInvocationEncoder(st, stack, d, loaded, diagnose)
      [] OTHER ->
           [ret |-> FALSE, diags |-> NoDiags, cache |-> st.cache,
            scans |-> st.scans]

(***************************************************************************)
(* State and actions of the resolutions and the sweep.                     *)
(***************************************************************************)
NoCall ==
    [call |-> "none", op |-> "none", diagnose |-> FALSE, fn |-> 0,
     ret |-> FALSE, sentinel |-> FALSE, evals |-> 0, diags |-> NoDiags,
     loaded |-> FALSE]

NoTarget ==
    [kind |-> "none"]

NoOut ==
    [call |-> "none", diagnose |-> FALSE, ret |-> FALSE, diags |-> NoDiags]

EmptyCache ==
    [x \in {} |-> 0]

\* the Distributed module gets loaded (an import is resolved)
LoadModule ==
    /\ ~moduleLoaded
    /\ moduleLoaded' = TRUE
    /\ UNCHANGED <<decl, cache, active, scans, last, target, out>>

\* a request that returns at once: from the cache, as the default of a
\* cycle, or after an evaluation no other request interrupts
Resolve(op) ==
    /\ op \in OpsOf(decl.kind)
    /\ LET r == evaluateOrDefault([cache |-> cache, scans |-> scans], active,
                                  decl, moduleLoaded, op) IN
       /\ cache' = r.cache
       /\ scans' = r.scans
       /\ last' = [call |-> "resolve", op |-> op, diagnose |-> FALSE,
                   fn |-> r.fn, ret |-> FALSE, sentinel |-> r.sentinel,
                   evals |-> r.evals, diags |-> r.diags,
                   loaded |-> moduleLoaded]
    /\ UNCHANGED <<decl, moduleLoaded, active, target, out>>

\* an evaluation starts and, before it returns, lets other requests in
BeginEvaluate(op) ==
    /\ op \in OpsOf(decl.kind)
    /\ ~IsCached(cache, op)
    /\ ~InFlight(active, op)
    /\ Len(active) < MaxDepth
    /\ active' = Append(active, [op |-> op, loaded |-> moduleLoaded])
    /\ UNCHANGED <<decl, moduleLoaded, cache, scans, last, target, out>>

\* the innermost evaluation in flight returns and its result is cached
FinishEvaluate ==
    /\ active # <<>>
    /\ LET f == active[Len(active)]
           r == Evaluate(decl, f.loaded, f.op) IN
       /\ cache' = Store(cache, f.op, r.fn)
       /\ scans' = [scans EXCEPT ![f.op] = @ + r.scanned]
       /\ last' = [call |-> "resolve", op |-> f.op, diagnose |-> FALSE,
                   fn |-> r.fn, ret |-> FALSE, sentinel |-> FALSE,
                   evals |-> r.evals, diags |-> r.diags, loaded |-> f.loaded]
    /\ active' = SubSeq(active, 1, Len(active) - 1)
    /\ UNCHANGED <<decl, moduleLoaded, target, out>>

\* the conformance checker runs the sweep for the protocol the type adopts
Sweep(diagnose) ==
    /\ decl.kind \in MarkerProtocols
    /\ LET r == checkDistributedActorSystemAdHocProtocolRequirements(
                  [cache |-> cache, scans |-> scans], active, decl,
                  moduleLoaded, decl.kind, diagnose) IN
       /\ cache' = r.cache
       /\ scans' = r.scans
       /\ last' = [call |-> "sweep", op |-> decl.kind, diagnose |-> diagnose,
                   fn |-> 0, ret |-> r.ret, sentinel |-> FALSE, evals |-> 0,
                   diags |-> r.diags, loaded |-> moduleLoaded]
    /\ UNCHANGED <<decl, moduleLoaded, active, target, out>>

DeclKinds ==
    {"DistributedActorSystem", "DistributedTargetInvocationEncoder", "Nominal"}

InitResolution ==
    /\ cache = EmptyCache
    /\ active = <<>>
    /\ scans = [op \in AllOps |-> 0]
    /\ last = NoCall
    /\ target = NoTarget
    /\ out = NoOut

Init ==
    /\ decl \in Decls(DeclKinds, {"public"}, MaxCachedMembers)
    /\ moduleLoaded = FALSE
    /\ InitResolution

Next ==
    \/ LoadModule
    \/ \E op \in AllOps : Resolve(op)
    \/ \E op \in AllOps : BeginEvaluate(op)
    \/ FinishEvaluate
    \/ \E diagnose \in BOOLEAN : Sweep(diagnose)

Spec ==
    Init /\ [][Next]_vars

InitSweep ==
    /\ decl \in Decls(DeclKinds, AccessLevels, MaxMembers)
    /\ moduleLoaded \in BOOLEAN
    /\ InitResolution

NextSweep ==
    \/ \E op \in AllOps : Resolve(op)
    \/ \E diagnose \in BOOLEAN : Sweep(diagnose)

SpecSweep ==
    InitSweep /\ [][NextSweep]_vars


(***************************************************************************)
(* Properties of the sweep and the resolutions.                            *)
(***************************************************************************)
Emitted(d) ==
    \E i \in 1..Len(last.diags) : last.diags[i] = d

\* the access rule as the specification states it: a type at least as
\* visible as public needs operations at least as visible as public
AccessRuleViolated(d, fn) ==
    /\ fn # 0
    /\ AccessRank(d.access) >= AccessRank("public")
    /\ AccessRank(d.members[fn].access) < AccessRank("public")

SweepReturned ==
    /\ last.call = "sweep"
    /\ active = <<>>

\* C1: for the actor-system and the encoder protocol the sweep returns true
\* exactly when one of the protocol's ad-hoc operations is unresolved or a
\* resolved one violates the access rule, for both values of diagnose.
C1_SweepTrueIffMissingOrInaccessible ==
    SweepReturned =>
      (last.ret <=> \E op \in OpsOf(decl.kind) :
                      \/ cache[op] = 0
                      \/ AccessRuleViolated(decl, cache[op]))

\* C2: for every resolved ad-hoc operation the sweep emits the access-level
\* error exactly when the type is at least public and the operation is less
\* visible than public.
C2_AccessFailureIffLessVisible ==
    SweepReturned =>
      \A op \in OpsOf(decl.kind) :
        cache[op] # 0 =>
          (Emitted(Diag("error", "witness_not_accessible_type", op))
             <=> AccessRuleViolated(decl, cache[op]))

Satisfies(op, i) ==
    /\ decl.members[i].name = op
    /\ Features(decl.members[i], decl.sr).isFunc
    /\ MatchFn(op, decl.members[i], decl.sr)

NoMemberSatisfies(op) ==
    \A i \in 1..Len(decl.members) : ~Satisfies(op, i)

NeverAPartialMatch ==
    /\ \A op \in DOMAIN cache \cap AdHocOps :
         cache[op] # 0 => Satisfies(op, cache[op])
    /\ (last.call = "resolve" /\ last.op \in AdHocOps /\ last.fn # 0)
         => Satisfies(last.op, last.fn)

ReportedMissing(op) ==
    /\ cache[op] = 0
    /\ last.ret
    /\ last.diagnose =>
         /\ Emitted(Diag("error", "missing_adhoc_requirement", op))
         /\ Emitted(Diag("note", "missing_adhoc_requirement", op))

\* C3: a resolution never returns a same-named member that fails the
\* operation's predicate; when no member satisfies it the result is nullptr
\* and the sweep reports the operation as a missing witness (it returns true
\* and, when asked to diagnose, emits the error and its note).
C3_EverySweepReportsMissing ==
    /\ NeverAPartialMatch
    /\ SweepReturned =>
         \A op \in OpsOf(decl.kind) : NoMemberSatisfies(op) => ReportedMissing(op)

\* C4: while the Distributed module is not loaded every resolution returns
\* nullptr, emits nothing and calls the predicate on no member, whatever the
\* declaration holds.
C4_NotLoadedNotFound ==
    ~moduleLoaded =>
      /\ \A op \in DOMAIN cache : cache[op] = 0 /\ scans[op] = 0
      /\ last.call = "resolve"
           => last.fn = 0 /\ last.evals = 0 /\ last.diags = NoDiags

C4_Witness ==
    /\ ~moduleLoaded
    /\ last.call = "resolve"
    /\ last.op \in AdHocOps
    /\ ~NoMemberSatisfies(last.op)
    /\ last.fn = 0

(***************************************************************************)
(* Properties of the request cache.                                        *)
(***************************************************************************)
Evaluating(op) ==
    \E i \in 1..Len(active) : active[i].op = op

FrameOf(op) ==
    active[CHOOSE i \in 1..Len(active) : active[i].op = op]

ResolveReturns(op) ==
    /\ last' # last
    /\ last'.call = "resolve"
    /\ last'.op = op

\* C5: the member scan of a key runs at most once; once a key is cached its
\* entry never changes or disappears, later requests return it and scan
\* nothing.
C5_ScanAtMostOnce ==
    [][\A op \in AllOps :
         /\ scans'[op] <= 1
         /\ op \in DOMAIN cache =>
              /\ op \in DOMAIN cache'
              /\ cache'[op] = cache[op]
              /\ scans'[op] = scans[op]
              /\ ResolveReturns(op) => last'.fn = cache[op] /\ last'.evals = 0]_vars

C5_Witness ==
    /\ last.call = "resolve"
    /\ last.op \in AdHocOps
    /\ last.fn # 0
    /\ last.evals = 0
    /\ scans[last.op] = 1

\* C6: a request for a key whose evaluation is in flight gets the sentinel
\* and starts nothing (no second frame, no scan, nothing cached); when the
\* evaluation in flight returns, what it computed is what is cached.
C6_ReentrantGetsSentinel ==
    [][\A op \in AllOps :
         Evaluating(op) =>
           /\ op \notin DOMAIN cache
           /\ Cardinality({i \in 1..Len(active') : active'[i].op = op}) <= 1
           /\ Evaluating(op)' =>
                /\ op \notin DOMAIN cache'
                /\ scans'[op] = scans[op]
                /\ ResolveReturns(op) =>
                     last'.sentinel /\ last'.fn = 0 /\ active' = active
           /\ ~Evaluating(op)' =>
                /\ op \in DOMAIN cache'
                /\ cache'[op] = Evaluate(decl, FrameOf(op).loaded, op).fn
                /\ last'.fn = cache'[op]
                /\ ~last'.sentinel]_vars

C6_Witness ==
    /\ last.call = "resolve"
    /\ last.sentinel
    /\ Evaluating(last.op)
    /\ FrameOf(last.op).loaded
    /\ ~NoMemberSatisfies(last.op)

\* C7: at every point of the compilation, also after the Distributed module
\* has been loaded, a cached resolution equals what a fresh evaluation
\* would return.
C7_CachedEqualsFresh ==
    \A op \in DOMAIN cache : cache[op] = Evaluate(decl, moduleLoaded, op).fn


(***************************************************************************)
(* Distributed functions and properties.                                   *)
(*                                                                         *)
(* A requirement type is the error type, Any, a protocol, or a composition *)
(* of requirement types (Codable is the composition Encodable & Decodable).*)
(***************************************************************************)
ErrorType ==
    [kind |-> "error"]

AnyType ==
    [kind |-> "any"]

ProtocolType(n) ==
    [kind |-> "protocol", name |-> n]

Composition(ms) ==
    [kind |-> "composition", members |-> ms]

CodableType ==
    Composition(<<ProtocolType("Encodable"), ProtocolType("Decodable")>>)

RequirementTypes ==
    {ErrorType, AnyType, ProtocolType("SomeProtocol"), CodableType,
     Composition(<<CodableType, ProtocolType("SomeProtocol")>>),
     Composition(<<ProtocolType("SomeProtocol"), CodableType>>)}

FlattensTopLevelOnly(ty) ==
    CASE ty.kind = "protocol"    -> {ty.name}
      [] ty.kind = "composition" ->
           {ty.members[i].name :
              i \in {j \in 1..Len(ty.members) : ty.members[j].kind = "protocol"}}
      [] OTHER                   -> {}

RECURSIVE flattenDistributedSerializationTypeToRequiredProtocols(_)
flattenDistributedSerializationTypeToRequiredProtocols(ty) ==
    CASE ty.kind = "protocol"    -> {ty.name}
      [] ty.kind = "composition" ->
           UNION {flattenDistributedSerializationTypeToRequiredProtocols(ty.members[i]) :
                    i \in 1..Len(ty.members)}
      [] OTHER                   -> {}

AssumesCodableWhenUnresolved(ty, hasProtocol) ==
    IF ~hasProtocol \/ ty.kind = "error"
      THEN Codable
      ELSE flattenDistributedSerializationTypeToRequiredProtocols(ty)

\* getDistributedSerializationRequirementProtocols(nominal, protocol)
getDistributedSerializationRequirementProtocols(ty, hasProtocol) ==
    IF ~hasProtocol
      THEN {}
      ELSE IF ty.kind = "error"
        THEN {}
        ELSE flattenDistributedSerializationTypeToRequiredProtocols(ty)

\* the requirements an extension of a distributed actor is constrained to
extractDistributedSerializationRequirements(ty) ==
    flattenDistributedSerializationTypeToRequiredProtocols(ty)

checkDistributedSerializationRequirementIsExactlyCodable(reqs) ==
    reqs = Codable

\* the types of parameters, results and properties, with the protocols
\* TypeChecker::conformsToProtocol finds them conforming to
ValueTypes ==
    {"Int", "NotCodable", "Token"}

Conformances(ty) ==
    CASE ty = "Int"        -> Codable
      [] ty = "Token"      -> Codable \cup {"SomeProtocol"}
      [] OTHER             -> {}

NonConforming(ty, reqs) ==
    {r \in reqs : r \notin Conformances(ty)}

\* the orders in which a SmallPtrSet of protocols may be walked
Orders ==
    {o \in [1..Cardinality(Protocols) -> Protocols] :
       \A i, j \in DOMAIN o : i # j => o[i] # o[j]}

FirstIn(order, S) ==
    order[CHOOSE i \in DOMAIN order :
            /\ order[i] \in S
            /\ \A j \in DOMAIN order : order[j] \in S => i <= j]

ConformanceToSuggest(isCodable, req) ==
    IF isCodable THEN "Codable" ELSE req

\* checkDistributedTargetResultType once the requirement set has been
\* classified: isCodableRequirement only picks the wording
ResultTypeCheck(resultType, reqs, isCodableRequirement, diagnose, order) ==
    LET failing == NonConforming(resultType, reqs) IN
    IF resultType = "Void"
      THEN [ret |-> FALSE, diags |-> NoDiags]
      ELSE IF failing # {} /\ diagnose
        THEN [ret |-> TRUE,
              diags |-> <<Diag("error", "distributed_actor_target_result_not_codable",
                               ConformanceToSuggest(isCodableRequirement,
                                                    FirstIn(order, failing)))>>]
        ELSE [ret |-> FALSE, diags |-> NoDiags]

checkDistributedTargetResultType(resultType, reqs, diagnose, order) ==
    ResultTypeCheck(resultType, reqs,
                    checkDistributedSerializationRequirementIsExactlyCodable(reqs),
                    diagnose, order)

\* the requirements checkDistributedFunction checks a function against
SerializationRequirementsOf(f) ==
    CASE f.context = "extension" ->
           extractDistributedSerializationRequirements(f.reqType)
      [] f.context = "class" ->
           getDistributedSerializationRequirementProtocols(f.reqType, f.hasProtocol)
      [] OTHER -> {}

\* one turn of the parameter loop of checkDistributedFunction: `returned`
\* says the function returned true from inside the loop
CheckParamIgnoresInOut(p, i, reqs, isCodable, diagnose, order) ==
    LET failing == NonConforming(p.ty, reqs) IN
    IF failing # {}
      THEN [returned |-> TRUE,
            diags |-> IF diagnose
                        THEN <<Diag("error", "distributed_actor_func_param_not_codable",
                                    <<i, ConformanceToSuggest(isCodable,
                                                              FirstIn(order, failing))>>)>>
                        ELSE NoDiags]
      ELSE [returned |-> FALSE,
            diags |-> IF p.variadic
                        THEN <<Diag("warning", "distributed_actor_func_variadic", i)>>
                        ELSE NoDiags]

CheckParamOnlyWhenDiagnosing(p, i, reqs, isCodable, diagnose, order) ==
    LET failing == NonConforming(p.ty, reqs) IN
    IF failing # {} /\ diagnose
      THEN [returned |-> TRUE,
            diags |-> <<Diag("error", "distributed_actor_func_param_not_codable",
                             <<i, ConformanceToSuggest(isCodable,
                                                       FirstIn(order, failing))>>)>>]
      ELSE IF p.inout
        THEN [returned |-> TRUE,
              diags |-> <<Diag("error", "distributed_actor_func_inout", i)>>]
        ELSE [returned |-> FALSE,
              diags |-> IF p.variadic
                          THEN <<Diag("warning", "distributed_actor_func_variadic", i)>>
                          ELSE NoDiags]

CheckParamRejectsVariadic(p, i, reqs, isCodable, diagnose, order) ==
    LET failing == NonConforming(p.ty, reqs) IN
    IF failing # {}
      THEN [returned |-> TRUE,
            diags |-> IF diagnose
                        THEN <<Diag("error", "distributed_actor_func_param_not_codable",
                                    <<i, ConformanceToSuggest(isCodable,
                                                              FirstIn(order, failing))>>)>>
                        ELSE NoDiags]
      ELSE IF p.inout
        THEN [returned |-> TRUE,
              diags |-> <<Diag("error", "distributed_actor_func_inout", i)>>]
        ELSE [returned |-> p.variadic,
              diags |-> IF p.variadic
                          THEN <<Diag("warning", "distributed_actor_func_variadic", i)>>
                          ELSE NoDiags]

CheckParamFailsOnlyForCodable(p, i, reqs, isCodable, diagnose, order) ==
    LET failing == NonConforming(p.ty, reqs) IN
    IF failing # {} /\ isCodable
      THEN [returned |-> TRUE,
            diags |-> IF diagnose
                        THEN <<Diag("error", "distributed_actor_func_param_not_codable",
                                    <<i, "Codable">>)>>
                        ELSE NoDiags]
      ELSE IF p.inout
        THEN [returned |-> TRUE,
              diags |-> <<Diag("error", "distributed_actor_func_inout", i)>>]
        ELSE [returned |-> FALSE,
              diags |-> IF p.variadic
                          THEN <<Diag("warning", "distributed_actor_func_variadic", i)>>
                          ELSE NoDiags]

CheckParam(p, i, reqs, isCodable, diagnose, order) ==
    LET failing == NonConforming(p.ty, reqs) IN
    IF failing # {}
      THEN [returned |-> TRUE,
            diags |-> IF diagnose
                        THEN <<Diag("error", "distributed_actor_func_param_not_codable",
                                    <<i, ConformanceToSuggest(isCodable,
                                                              FirstIn(order, failing))>>)>>
                        ELSE NoDiags]
      ELSE IF p.inout
        THEN [returned |-> TRUE,
              diags |-> <<Diag("error", "distributed_actor_func_inout", i)>>]
        ELSE [returned |-> FALSE,
              diags |-> IF p.variadic
                          THEN <<Diag("warning", "distributed_actor_func_variadic", i)>>
                          ELSE NoDiags]

\* the parameter loop, from parameter i on
RECURSIVE CheckParams(_, _, _, _, _, _)
CheckParams(f, i, reqs, isCodable, diagnose, order) ==
    IF i > Len(f.params)
      THEN [returned |-> FALSE, diags |-> NoDiags]
      ELSE LET one == CheckParam(f.params[i], i, reqs, isCodable, diagnose, order) IN
           IF one.returned
             THEN one
             ELSE LET rest == CheckParams(f, i + 1, reqs, isCodable, diagnose, order) IN
                  [returned |-> rest.returned, diags |-> one.diags \o rest.diags]

\* checkDistributedFunction once the requirement set is known and classified
FunctionCheck(f, reqs, isCodable, diagnose, order) ==
    LET params == CheckParams(f, 1, reqs, isCodable, diagnose, order)
        result == ResultTypeCheck(f.result, reqs, isCodable, diagnose, order) IN
    IF params.returned
      THEN [ret |-> TRUE, diags |-> params.diags]
      ELSE [ret |-> result.ret, diags |-> params.diags \o result.diags]

checkDistributedFunction(f, diagnose, order) ==
    FunctionCheck(f, SerializationRequirementsOf(f),
                  checkDistributedSerializationRequirementIsExactlyCodable(
                    SerializationRequirementsOf(f)),
                  diagnose, order)

PropertyCheckAllowsSetter(v, reqs, isCodable, diagnose, order) ==
    IF v.isStatic
      THEN [ret |-> TRUE,
            diags |-> <<Diag("error", "distributed_property_cannot_be_static", "var")>>]
      ELSE IF v.isLet \/ v.hasStorage
        THEN [ret |-> TRUE,
              diags |-> <<Diag("error", "distributed_property_can_only_be_computed",
                               "var")>>]
        ELSE ResultTypeCheck(v.type, reqs, isCodable, diagnose, order)

\* checkDistributedActorProperty once the requirement set is known and
\* classified
PropertyCheck(v, reqs, isCodable, diagnose, order) ==
    IF v.isStatic
      THEN [ret |-> TRUE,
            diags |-> <<Diag("error", "distributed_property_cannot_be_static", "var")>>]
      ELSE IF v.isLet \/ v.hasStorage
        THEN [ret |-> TRUE,
              diags |-> <<Diag("error", "distributed_property_can_only_be_computed",
                               "var")>>]
        ELSE IF v.writeImpl # "Immutable"
          THEN [ret |-> TRUE,
                diags |-> <<Diag("error",
                                 "distributed_property_can_only_be_computed_get_only",
                                 "var")>>]
          ELSE ResultTypeCheck(v.type, reqs, isCodable, diagnose, order)

checkDistributedActorProperty(v, diagnose, order) ==
    PropertyCheck(v,
                  getDistributedSerializationRequirementProtocols(v.reqType,
                                                                  v.hasProtocol),
                  checkDistributedSerializationRequirementIsExactlyCodable(
                    getDistributedSerializationRequirementProtocols(v.reqType,
                                                                    v.hasProtocol)),
                  diagnose, order)

\* the parameters whose type is the actor-system type of the class
TransportParams(c) ==
    SelectSeq(c.params, LAMBDA ty : ty = "ActorSystem")

ConstructorCheckAcceptsSeveral(c) ==
    IF ~c.isDistributedActor
      THEN NoDiags
      ELSE IF ~c.isDesignatedInit
        THEN NoDiags
        ELSE IF Len(TransportParams(c)) = 0
          THEN <<Diag("error",
                      "distributed_actor_designated_ctor_missing_transport_param",
                      "init")>>
          ELSE NoDiags

\* checkDistributedActorConstructor: the diagnostics it emits
checkDistributedActorConstructor(c) ==
    IF ~c.isDistributedActor
      THEN NoDiags
      ELSE IF ~c.isDesignatedInit
        THEN NoDiags
        ELSE IF Len(TransportParams(c)) = 0
          THEN <<Diag("error",
                      "distributed_actor_designated_ctor_missing_transport_param",
                      "init")>>
          ELSE IF Len(TransportParams(c)) = 1
            THEN NoDiags
            ELSE <<Diag("error",
                        "distributed_actor_designated_ctor_must_have_one_distributedactorsystem_param",
                        Len(TransportParams(c)))>>

(***************************************************************************)
(* The declarations the checks are applied to.                             *)
(***************************************************************************)
ParamDecls ==
    {[ty |-> t, inout |-> io, variadic |-> va] :
       t \in ValueTypes, io \in BOOLEAN, va \in BOOLEAN} \
    {[ty |-> t, inout |-> TRUE, variadic |-> TRUE] : t \in ValueTypes}

\* where a distributed func is declared, and whether the DistributedActor
\* protocol is known there
Contexts ==
    {<<"class", TRUE>>, <<"class", FALSE>>, <<"extension", TRUE>>,
     <<"protocol", TRUE>>}

FuncDecls ==
    {[kind |-> "func", params |-> ps, result |-> r, context |-> c[1],
      hasProtocol |-> c[2], reqType |-> ty] :
       ps \in SeqUpTo(ParamDecls, MaxParams), r \in ValueTypes \cup {"Void"},
       c \in Contexts, ty \in RequirementTypes}

\* a let, a stored var, a get-only computed var, a computed var with a setter
Storage ==
    {<<TRUE, TRUE, "Immutable">>, <<FALSE, TRUE, "Stored">>,
     <<FALSE, FALSE, "Immutable">>, <<FALSE, FALSE, "Set">>}

VarDecls ==
    {[kind |-> "var", isStatic |-> st, isLet |-> s[1], hasStorage |-> s[2],
      writeImpl |-> s[3], type |-> t, hasProtocol |-> hp, reqType |-> ty] :
       st \in BOOLEAN, s \in Storage, t \in ValueTypes \cup {"Void"},
       hp \in BOOLEAN, ty \in RequirementTypes}

\* an initializer of a class: its parameters are of the actor-system type
\* of the class or of another type
InitDecls ==
    {[kind |-> "ctor", isDistributedActor |-> da, isDesignatedInit |-> di,
      params |-> ps] :
       da \in BOOLEAN, di \in BOOLEAN,
       ps \in SeqUpTo({"ActorSystem", "Int"}, MaxInitParams)}

NoDecl ==
    [kind |-> "Nominal", access |-> "internal", members |-> <<>>,
     isTarget |-> FALSE, sr |-> Codable]

CheckFunction(diagnose, order) ==
    /\ target.kind = "func"
    /\ out.call = "none"
    /\ LET r == checkDistributedFunction(target, diagnose, order) IN
       out' = [call |-> "func", diagnose |-> diagnose, ret |-> r.ret,
               diags |-> r.diags]
    /\ UNCHANGED <<decl, moduleLoaded, cache, active, scans, last, target>>

CheckProperty(diagnose, order) ==
    /\ target.kind = "var"
    /\ out.call = "none"
    /\ LET r == checkDistributedActorProperty(target, diagnose, order) IN
       out' = [call |-> "var", diagnose |-> diagnose, ret |-> r.ret,
               diags |-> r.diags]
    /\ UNCHANGED <<decl, moduleLoaded, cache, active, scans, last, target>>

CheckConstructor ==
    /\ target.kind = "ctor"
    /\ out.call = "none"
    /\ out' = [call |-> "ctor", diagnose |-> FALSE, ret |-> FALSE,
               diags |-> checkDistributedActorConstructor(target)]
    /\ UNCHANGED <<decl, moduleLoaded, cache, active, scans, last, target>>

InitFunc ==
    /\ decl = NoDecl
    /\ moduleLoaded = TRUE
    /\ cache = EmptyCache
    /\ active = <<>>
    /\ scans = [op \in AllOps |-> 0]
    /\ last = NoCall
    /\ target \in FuncDecls \cup VarDecls \cup InitDecls
    /\ out = NoOut

NextFunc ==
    \/ \E diagnose \in BOOLEAN, order \in Orders : CheckFunction(diagnose, order)
    \/ \E diagnose \in BOOLEAN, order \in Orders : CheckProperty(diagnose, order)
    \/ CheckConstructor

SpecFunc ==
    InitFunc /\ [][NextFunc]_vars

(***************************************************************************)
(* Properties of checkDistributedFunction.                                 *)
(***************************************************************************)
HasInOut(f) ==
    \E i \in 1..Len(f.params) : f.params[i].inout

SomeParamFails(f) ==
    \E i \in 1..Len(f.params) :
      \E p \in SerializationRequirementsOf(f) :
        p \notin Conformances(f.params[i].ty)

\* C8: for a function with no inout parameter and a Void result the check
\* returns true exactly when some parameter's type does not conform to some
\* protocol of the effective requirement; never with an empty requirement.
C8_ParamsDecide ==
    (out.call = "func" /\ ~HasInOut(target) /\ target.result = "Void")
      => (out.ret <=> SomeParamFails(target))

C8_Witness ==
    /\ out.call = "func"
    /\ ~out.diagnose
    /\ target.result = "Void"
    /\ Len(target.params) = MaxParams
    /\ ~HasInOut(target)
    /\ NonConforming(target.params[1].ty, SerializationRequirementsOf(target)) = {}
    /\ SomeParamFails(target)
    /\ out.ret

ResultFails(ty, reqs) ==
    /\ ty # "Void"
    /\ \E p \in reqs : p \notin Conformances(ty)

\* C9: the check returns true whenever the result type of the function, or
\* the type of the property, is not Void and fails a protocol of the
\* requirement, whatever diagnose is; a Void result causes no failure.
C9_ResultDecides ==
    /\ (out.call = "func" /\ ResultFails(target.result, SerializationRequirementsOf(target)))
         => out.ret
    /\ (out.call = "var"
          /\ ResultFails(target.type,
               getDistributedSerializationRequirementProtocols(target.reqType,
                                                               target.hasProtocol)))
         => out.ret
    /\ (out.call = "func" /\ target.result = "Void" /\ ~HasInOut(target)
          /\ ~SomeParamFails(target))
         => ~out.ret

\* C10: the check returns true for every function with an inout parameter,
\* whatever the requirement and the conformances.
C10_InOutRejected ==
    (out.call = "func" /\ HasInOut(target)) => out.ret

C10_Witness ==
    /\ out.call = "func"
    /\ HasInOut(target)
    /\ SerializationRequirementsOf(target) = {}
    /\ target.result = "Void"
    /\ out.ret
    /\ out.diags = <<Diag("error", "distributed_actor_func_inout", Len(target.params))>>


VariadicParams(f) ==
    {i \in 1..Len(f.params) : f.params[i].variadic}

OtherwisePasses(f) ==
    /\ ~HasInOut(f)
    /\ ~SomeParamFails(f)
    /\ ~ResultFails(f.result, SerializationRequirementsOf(f))

\* the function with its parameters no longer variadic
WithoutVariadics(f) ==
    [f EXCEPT !.params = [i \in 1..Len(f.params) |->
                            [f.params[i] EXCEPT !.variadic = FALSE]]]

C12_ClassificationIsCosmetic ==
    /\ out.call = "func" =>
         \A isCodable \in BOOLEAN, order \in Orders :
           LET r == FunctionCheck(target, SerializationRequirementsOf(target),
                                  isCodable, out.diagnose, order) IN
           r.ret = out.ret /\ Len(r.diags) = Len(out.diags)
    /\ out.call = "var" =>
         \A isCodable \in BOOLEAN, order \in Orders :
           LET r == PropertyCheck(target,
                      getDistributedSerializationRequirementProtocols(
                        target.reqType, target.hasProtocol),
                      isCodable, out.diagnose, order) IN
           r.ret = out.ret /\ Len(r.diags) = Len(out.diags)

C12_Witness ==
    /\ out.call = "func"
    /\ out.diagnose
    /\ out.ret
    /\ SerializationRequirementsOf(target) = Codable
    /\ \E i \in 1..Len(out.diags) :
         /\ out.diags[i].id = "distributed_actor_func_param_not_codable"
         /\ out.diags[i].what[2] = "Codable"

DefectiveParams(f) ==
    {i \in 1..Len(f.params) :
       \/ f.params[i].inout
       \/ NonConforming(f.params[i].ty, SerializationRequirementsOf(f)) # {}}

Defects(f) ==
    Cardinality(DefectiveParams(f))
      + (IF ResultFails(f.result, SerializationRequirementsOf(f)) THEN 1 ELSE 0)

ErrorsOf(diags) ==
    {k \in 1..Len(diags) : diags[k].kind = "error"}

\* C15: with diagnose = true checkDistributedFunction emits an error for
\* each defect of the function (each defective parameter, and the result),
\* not only for the first.
C15_EveryDefectDiagnosed ==
    (out.call = "func" /\ out.diagnose)
      => Cardinality(ErrorsOf(out.diags)) >= Defects(target)


SystemTypedParams(c) ==
    Cardinality({i \in 1..Len(c.params) : c.params[i] = "ActorSystem"})

\* C14: checkDistributedActorConstructor emits nothing exactly when the class
\* is no distributed actor, or the initializer is not designated, or exactly
\* one parameter is of the actor-system type; otherwise it emits one
\* diagnostic: the missing-transport error when no parameter is, the
\* must-have-one error with the count n when n >= 2 are.
C14_ExactlyOneTransportParam ==
    out.call = "ctor" =>
      /\ out.diags = NoDiags <=> (\/ ~target.isDistributedActor
                                  \/ ~target.isDesignatedInit
                                  \/ SystemTypedParams(target) = 1)
      /\ out.diags # NoDiags =>
           /\ Len(out.diags) = 1
           /\ SystemTypedParams(target) = 0 =>
                out.diags[1] =
                  Diag("error",
                       "distributed_actor_designated_ctor_missing_transport_param",
                       "init")
           /\ SystemTypedParams(target) >= 2 =>
                out.diags[1] =
                  Diag("error",
                       "distributed_actor_designated_ctor_must_have_one_distributedactorsystem_param",
                       SystemTypedParams(target))

C14_Witness ==
    /\ out.call = "ctor"
    /\ target.isDistributedActor
    /\ target.isDesignatedInit
    /\ Len(target.params) = MaxInitParams
    /\ SystemTypedParams(target) = 2
    /\ Len(out.diags) = 1
    /\ out.diags[1].what = 2


\* the order in which the sweep goes through the operations of a protocol
SweepOrder(kind) ==
    IF kind = "DistributedActorSystem"
      THEN <<"remoteCall", "remoteCallVoid">>
      ELSE <<"recordArgument", "recordErrorType", "recordReturnType">>

MissingReports(diags) ==
    SelectSeq(diags, LAMBDA x : x.id = "missing_adhoc_requirement")

RECURSIVE ExpectedReports(_, _)
ExpectedReports(ops, i) ==
    IF i > Len(ops)
      THEN <<>>
      ELSE (IF cache[ops[i]] = 0
              THEN <<Diag("error", "missing_adhoc_requirement", ops[i]),
                     Diag("note", "missing_adhoc_requirement", ops[i])>>
              ELSE <<>>)
             \o ExpectedReports(ops, i + 1)

\* C16: a diagnosing sweep of the actor-system or the encoder protocol emits,
\* for every unresolved operation and for no resolved one, one
\* missing-witness error immediately followed by the note with the
\* operation's signature, in the order the sweep goes through the operations.
C16_EveryMissingOperationReported ==
    (/\ SweepReturned
     /\ last.diagnose
     /\ decl.kind \in {"DistributedActorSystem",
                       "DistributedTargetInvocationEncoder"})
      => /\ MissingReports(last.diags) = ExpectedReports(SweepOrder(decl.kind), 1)
         /\ \A k \in 1..Len(last.diags) :
              (last.diags[k].id = "missing_adhoc_requirement"
                 /\ last.diags[k].kind = "error")
                => /\ k < Len(last.diags)
                   /\ last.diags[k + 1] =
                        Diag("note", "missing_adhoc_requirement", last.diags[k].what)

C16_Witness ==
    /\ SweepReturned
    /\ last.diagnose
    /\ moduleLoaded
    /\ decl.kind = "DistributedTargetInvocationEncoder"
    /\ cache["recordArgument"] # 0
    /\ cache["recordErrorType"] = 0
    /\ cache["recordReturnType"] = 0
    /\ Len(last.diags) = 4


(***************************************************************************)
(* GetDistributedActorArgumentDecodingMethodRequest: the decodeNextArgument *)
(* of the invocation decoder of an actor's system.  A member found by the  *)
(* lookup is [name, shape, access, constraints, extra]: constraints are    *)
(* the protocols its generic parameter is required to conform to, extra a  *)
(* further generic requirement.                                            *)
(***************************************************************************)
ProtocolOrder ==
    <<"Decodable", "Encodable", "SomeProtocol", "Sendable">>

\* FD->getGenericRequirements()
GenericRequirements(m) ==
    [k \in 1..Len(SelectSeq(ProtocolOrder, LAMBDA q : q \in m.constraints)) |->
       [first |-> "Argument", kind |-> "Conformance",
        proto |-> SelectSeq(ProtocolOrder, LAMBDA q : q \in m.constraints)[k]]]
      \o (CASE m.extra = "otherDecodable" ->
                 <<[first |-> "Other", kind |-> "Conformance",
                    proto |-> "Decodable"]>>
            [] m.extra = "layout" ->
                 <<[first |-> "Argument", kind |-> "Layout", proto |-> "none"]>>
            [] OTHER -> <<>>)

\* the signature of a member named decodeNextArgument
DecoderFeatures(m) ==
    [isFunc       |-> m.shape # "var",
     hasAsync     |-> m.shape = "async",
     hasThrows    |-> m.shape # "nothrow",
     params       |-> IF m.shape = "oneParam" THEN 1 ELSE 0,
     generics     |-> IF m.shape = "twoGenerics" THEN <<"Argument", "Other">>
                                                 ELSE <<"Argument">>,
     result       |-> IF m.shape = "returnsOther" THEN "String" ELSE "Argument",
     requirements |-> GenericRequirements(m)]

CountsEveryConformance(f, reqs) ==
    Len(SelectSeq(f.requirements,
                  LAMBDA r : r.first = f.generics[1] /\ r.kind = "Conformance"))

\* how many of the serialization requirements the requirements on the
\* generic parameter cover
numSerializationReqsCovered(f, reqs) ==
    Len(SelectSeq(f.requirements,
                  LAMBDA r : /\ r.first = f.generics[1]
                             /\ r.kind = "Conformance"
                             /\ r.proto \in reqs))

\* one turn of the loop over the members: is the member pushed to candidates
IsDecodingCandidate(f, reqs) ==
    /\ f.isFunc
    /\ ~f.hasAsync
    /\ f.hasThrows
    /\ f.params = 0
    /\ Len(f.generics) = 1
    /\ f.result = f.generics[1]
    /\ numSerializationReqsCovered(f, reqs) = Cardinality(reqs)

DecodingCandidates(decoder, reqs) ==
    {i \in 1..Len(decoder.members) :
       /\ decoder.members[i].name = "decodeNextArgument"
       /\ IsDecodingCandidate(DecoderFeatures(decoder.members[i]), reqs)}

\* the outcomes of reading through a null or indeterminate pointer: the
\* compiler crashes, or goes on with a pointer that is null (0), no
\* declaration at all (-1) or some member of the decoder
Indeterminate(decoder, candidates) ==
    {[outcome |-> "crash", fn |-> 0, candidates |-> candidates]}
      \cup {[outcome |-> "returned", fn |-> i, candidates |-> candidates] :
              i \in (-1)..Len(decoder.members)}

\* assert(candidates.size() == 1); return candidates.front(): the outcomes
\* in a compiler built with assertions and in one built without them
OnlyCandidate(decoder, candidates, assertions) ==
    IF Cardinality(candidates) = 1 THEN
         {[outcome |-> "returned", fn |-> Least(candidates),
           candidates |-> candidates]}
    ELSE IF assertions THEN
         {[outcome |-> "assertion", fn |-> 0, candidates |-> candidates]}
    ELSE IF candidates = {} THEN
         Indeterminate(decoder, candidates)
    ELSE {[outcome |-> "returned", fn |-> Least(candidates),
           candidates |-> candidates]}

\* the set of outcomes of the request
GetDistributedActorArgumentDecodingMethod(actor, decoder, assertions) ==
    IF ~actor.hasDecoder
      THEN IF assertions
             THEN {[outcome |-> "assertion", fn |-> 0, candidates |-> {}]}
             ELSE Indeterminate(decoder, {})
      ELSE OnlyCandidate(decoder,
             DecodingCandidates(decoder,
               getDistributedSerializationRequirementProtocols(actor.reqType,
                                                               actor.hasProtocol)),
             assertions)

ConstraintSets ==
    {{}, {"SomeProtocol"}, {"Encodable"}, Codable, Codable \cup {"SomeProtocol"},
     Codable \cup {"Sendable"}, Codable \cup {"SomeProtocol", "Sendable"}}

\* the members the lookup of decodeNextArgument may find
DecoderCandidates ==
    {[name |-> "decodeNextArgument", shape |-> "ok", access |-> "internal",
      constraints |-> cs, extra |-> "none"] : cs \in ConstraintSets}
      \cup {[name |-> "decodeNextArgument", shape |-> "ok", access |-> "internal",
             constraints |-> {"Encodable"}, extra |-> "otherDecodable"],
            [name |-> "decodeNextArgument", shape |-> "ok", access |-> "internal",
             constraints |-> Codable, extra |-> "layout"]}
      \cup {[name |-> "decodeNextArgument", shape |-> sh, access |-> "internal",
             constraints |-> Codable, extra |-> "none"] :
              sh \in {"async", "nothrow", "oneParam", "twoGenerics",
                      "returnsOther", "var"}}

DecoderDecls ==
    {[kind |-> "DistributedTargetInvocationDecoder", access |-> "internal",
      members |-> ms, isTarget |-> FALSE, sr |-> Codable] :
       ms \in SeqUpTo(DecoderCandidates, MaxDecoderMembers)}

\* a distributed actor: its serialization requirement, whether the
\* DistributedActor protocol is known, whether its system has a decoder
ActorDecls ==
    {[kind |-> "actor", reqType |-> ty, hasProtocol |-> TRUE, hasDecoder |-> TRUE] :
       ty \in RequirementTypes}
      \cup {[kind |-> "actor", reqType |-> CodableType, hasProtocol |-> FALSE,
             hasDecoder |-> TRUE],
            [kind |-> "actor", reqType |-> CodableType, hasProtocol |-> TRUE,
             hasDecoder |-> FALSE]}

\* actor systems and encoders whose SerializationRequirement is Any
WellFormed(name, acc) ==
    {[name |-> name, shape |-> "ok", access |-> a] : a \in AccessUpTo(acc)}

AnyRequirementDecls ==
    UNION {UNION {{[kind |-> k, access |-> a, members |-> ms,
                    isTarget |-> FALSE, sr |-> {}] :
                     ms \in SeqUpTo(UNION {WellFormed(n, a) : n \in OpsOf(k)},
                                    MaxMembers)} :
                  a \in AccessLevels} :
           k \in {"DistributedActorSystem", "DistributedTargetInvocationEncoder"}}

\* the members of a result handler: onReturn and onThrow, as functions or
\* as something else of that name
ResultHandlerDecls ==
    UNION {{[kind |-> "DistributedTargetInvocationResultHandler", access |-> a,
             members |-> ms, isTarget |-> FALSE, sr |-> Codable] :
              ms \in SeqUpTo({[name |-> n, shape |-> sh, access |-> a,
                               constraints |-> {}, extra |-> "none"] :
                                n \in {"onReturn", "onThrow"}, sh \in {"ok", "var"}},
                             MaxDecoderMembers)} :
           a \in {"internal", "public"}}

ResolveDecodingMethod ==
    /\ target.kind = "actor"
    /\ out.call = "none"
    /\ \E assertions \in BOOLEAN :
         \E r \in GetDistributedActorArgumentDecodingMethod(target, decl, assertions) :
            out' = [call |-> "decode", diagnose |-> FALSE, ret |-> FALSE,
                    diags |-> NoDiags, assertions |-> assertions,
                    outcome |-> r.outcome, fn |-> r.fn,
                    candidates |-> r.candidates]
    /\ UNCHANGED <<decl, moduleLoaded, cache, active, scans, last, target>>

InitDecode ==
    /\ \/ decl \in DecoderDecls /\ target \in ActorDecls
       \/ decl \in AnyRequirementDecls \cup ResultHandlerDecls /\ target = NoTarget
    /\ moduleLoaded = TRUE
    /\ cache = EmptyCache
    /\ active = <<>>
    /\ scans = [op \in AllOps |-> 0]
    /\ last = NoCall
    /\ out = NoOut

NextDecode ==
    \/ ResolveDecodingMethod
    \/ \E diagnose \in BOOLEAN : Sweep(diagnose)

SpecDecode ==
    InitDecode /\ [][NextDecode]_vars

(***************************************************************************)
(* Claims about the decoding method.                                       *)
(***************************************************************************)
DecodingResolved ==
    out.call = "decode" /\ target.kind = "actor" /\ target.hasDecoder

\* the protocols of the actor's serialization requirement
RequirementOf(actor) ==
    getDistributedSerializationRequirementProtocols(actor.reqType,
                                                    actor.hasProtocol)

\* not async, throwing, no value parameters, one generic parameter that is
\* also the result
RightShaped(m) ==
    m.shape = "ok"

\* C17: a decodeNextArgument candidate of the right shape is accepted when
\* its generic parameter is constrained to every protocol of the actor's
\* serialization requirement, whatever else the parameter is constrained
\* to, and rejected when at least one of those protocols is missing.
C17_AcceptedIffEveryProtocolCovered ==
    DecodingResolved =>
      \A i \in 1..Len(decl.members) :
         RightShaped(decl.members[i]) =>
           (i \in out.candidates
              <=> RequirementOf(target) \subseteq decl.members[i].constraints)

C17_Witness ==
    /\ DecodingResolved
    /\ RequirementOf(target) = Codable
    /\ Len(decl.members) = 2
    /\ RightShaped(decl.members[1])
    /\ decl.members[1].constraints = Codable \cup {"SomeProtocol", "Sendable"}
    /\ RightShaped(decl.members[2])
    /\ decl.members[2].constraints = {"Encodable"}
    /\ out.candidates = {1}
    /\ out.outcome = "returned"
    /\ out.fn = 1

SatisfyingMembers ==
    {i \in 1..Len(decl.members) :
       IsDecodingCandidate(DecoderFeatures(decl.members[i]),
                           RequirementOf(target))}

\* C18: the resolution of the decoding method never picks one of several
\* matches: when two or more members satisfy the predicate it stops on the
\* assertion instead of returning, and when it returns, the function it
\* returns is the only member that satisfies the predicate.  This fails in
\* a compiler built without assertions.
C18_NeverPicksAmongSeveral ==
    DecodingResolved =>
      /\ Cardinality(SatisfyingMembers) >= 2 => out.outcome = "assertion"
      /\ out.outcome = "returned" => SatisfyingMembers = {out.fn}

\* C19: with the requirement {Encodable, Decodable, SomeProtocol} and a
\* decoder whose only decodeNextArgument constrains its generic parameter to
\* SomeProtocol alone, the resolution yields "not found", neither returning
\* that member nor stopping on the assertion, and the conformance sweep of
\* the decoder returns true.  The code does neither.
C19_UncoveredRequirementIsNotFound ==
    ( /\ target.kind = "actor"
      /\ target.hasDecoder
      /\ RequirementOf(target) = Codable \cup {"SomeProtocol"}
      /\ Len(decl.members) = 1
      /\ RightShaped(decl.members[1])
      /\ decl.members[1].constraints = {"SomeProtocol"}
      /\ decl.members[1].extra = "none" )
      => /\ out.call = "decode" => out.outcome # "assertion" /\ out.fn = 0
         /\ last.call = "sweep" => last.ret

DeclaresEveryOperation(d) ==
    /\ \A op \in OpsOf(d.kind) :
          \E i \in 1..Len(d.members) :
             d.members[i].name = op /\ d.members[i].shape = "ok"
    /\ \A i \in 1..Len(d.members) :
          AccessRank(d.members[i].access) >= AccessRank(d.access)

\* C20: when the serialization requirement is Any, every candidate of the
\* right shape is accepted whatever its generic parameter is constrained
\* to, and a type that declares the ad-hoc operations with
\* SerializationRequirement = Any is accepted by the sweep without a
\* diagnostic.  The sweep rejects such a type when it is open.
C20_AnyRequirementAcceptsAll ==
    /\ (DecodingResolved /\ target.reqType = AnyType) =>
         \A i \in 1..Len(decl.members) :
            RightShaped(decl.members[i]) => i \in out.candidates
    /\ (SweepReturned /\ decl.kind \in {"DistributedActorSystem",
                                        "DistributedTargetInvocationEncoder"}
          /\ decl.sr = {} /\ DeclaresEveryOperation(decl)) =>
         ~last.ret /\ last.diags = NoDiags

(***************************************************************************)
(* Unresolvable requirements, flattening, and the diagnose flag.           *)
(***************************************************************************)
\* the marker protocol is null or the bound type has an error
RequirementUnresolved(d) ==
    ~d.hasProtocol \/ d.reqType = ErrorType

ConformanceDiags(diags) ==
    SelectSeq(diags,
              LAMBDA g : g.id \in {"distributed_actor_func_param_not_codable",
                                   "distributed_actor_target_result_not_codable"})

\* C21: when the serialization requirement of the type cannot be resolved,
\* getDistributedSerializationRequirementProtocols returns the empty set,
\* and checkDistributedFunction and checkDistributedActorProperty emit no
\* conformance diagnostic for a parameter or a result of a declaration of
\* that type.
C21_UnresolvedMeansUnconstrained ==
    (out.call \in {"func", "var"} /\ RequirementUnresolved(target)) =>
      /\ getDistributedSerializationRequirementProtocols(target.reqType,
                                                         target.hasProtocol) = {}
      /\ ConformanceDiags(out.diags) = <<>>

C21_Witness ==
    /\ out.call = "func"
    /\ out.diagnose
    /\ target.context = "class"
    /\ ~target.hasProtocol
    /\ target.reqType = CodableType
    /\ Len(target.params) = 1
    /\ target.params[1].ty = "NotCodable"
    /\ ~target.params[1].inout
    /\ target.result = "NotCodable"
    /\ ~out.ret
    /\ out.diags = NoDiags

(***************************************************************************)
(* Flattening of requirement expressions: a single protocol, a conjunction *)
(* of requirement expressions, or the unconstrained type.                  *)
(***************************************************************************)
RECURSIVE RequirementExprs(_)
RequirementExprs(k) ==
    IF k = 0
      THEN {ProtocolType(n) : n \in Protocols}
      ELSE RequirementExprs(k - 1)
             \cup {Composition(<<a, b>>) : a, b \in RequirementExprs(k - 1)}

RequirementDecls ==
    {[kind |-> "requirement", reqType |-> ty] :
       ty \in RequirementExprs(MaxNesting) \cup {AnyType}}

Flatten ==
    /\ target.kind = "requirement"
    /\ out.call = "none"
    /\ out' = [call |-> "flatten", diagnose |-> FALSE, ret |-> FALSE,
               diags |-> NoDiags,
               protocols |->
                 flattenDistributedSerializationTypeToRequiredProtocols(target.reqType)]
    /\ UNCHANGED <<decl, moduleLoaded, cache, active, scans, last, target>>

InitFlatten ==
    /\ decl = NoDecl
    /\ moduleLoaded = TRUE
    /\ cache = EmptyCache
    /\ active = <<>>
    /\ scans = [op \in AllOps |-> 0]
    /\ last = NoCall
    /\ target \in RequirementDecls
    /\ out = NoOut

NextFlatten ==
    Flatten

SpecFlatten ==
    InitFlatten /\ [][NextFlatten]_vars

\* the expressions that occur in the expressions of S, down to k levels
RECURSIVE SubExpressions(_, _)
SubExpressions(S, k) ==
    IF k = 0
      THEN S
      ELSE SubExpressions(
             S \cup UNION {Range(t.members) : t \in {u \in S : u.kind = "composition"}},
             k - 1)

Leaves(ty) ==
    {t.name : t \in {u \in SubExpressions({ty}, MaxNesting) : u.kind = "protocol"}}

\* the same expression with the conjuncts of every conjunction swapped
RECURSIVE Mirror(_)
Mirror(ty) ==
    IF ty.kind = "composition"
      THEN Composition(<<Mirror(ty.members[2]), Mirror(ty.members[1])>>)
      ELSE ty

\* C22: flattening a requirement expression yields exactly the protocols at
\* its leaves, to any nesting depth and whatever the order of the
\* conjuncts: Codable & X yields {Encodable, Decodable, X}, A & B and B & A
\* yield equal sets, a single protocol yields a singleton, the
\* unconstrained type the empty set.
C22_FlattenYieldsLeaves ==
    out.call = "flatten" =>
      /\ out.protocols = Leaves(target.reqType)
      /\ out.protocols =
           flattenDistributedSerializationTypeToRequiredProtocols(Mirror(target.reqType))
      /\ target.reqType.kind = "protocol" => out.protocols = {target.reqType.name}
      /\ target.reqType = AnyType => out.protocols = {}

C22_Witness ==
    /\ out.call = "flatten"
    /\ target.reqType = Composition(<<CodableType, ProtocolType("SomeProtocol")>>)
    /\ out.protocols = {"Encodable", "Decodable", "SomeProtocol"}

(***************************************************************************)
(* Uniqueness of the resolved member.                                      *)
(***************************************************************************)
SatisfyingMembersOf(op) ==
    {i \in 1..Len(decl.members) : Satisfies(op, i)}

\* C23: the resolution of a call or recording operation returns a function
\* only when it is the one same-named direct member that satisfies the
\* operation's predicate; with two or more such members it does not return
\* one of them.  The finder returns the first.
C23_ResolvedIsUnique ==
    (last.call = "resolve" /\ last.op \in AdHocOps /\ last.fn # 0)
      => SatisfyingMembersOf(last.op) = {last.fn}

\* C24: with diagnose false, checkDistributedFunction,
\* checkDistributedActorProperty and the sweep emit no diagnostic at all,
\* whatever defects the declaration has.  The inout, variadic, static,
\* stored and settable diagnostics, the encoder's missing-witness
\* diagnostics and the access-level error are emitted without asking.
C24_SilentWhenNotDiagnosing ==
    /\ (out.call \in {"func", "var"} /\ ~out.diagnose) => out.diags = NoDiags
    /\ (SweepReturned /\ ~last.diagnose) => last.diags = NoDiags

\* C25: for the decoder and the result-handler protocol the sweep returns
\* false and emits no diagnostic for every adoptee, whatever members it
\* declares, also one with no decodeNextArgument or onReturn member.
C25_DecoderAndHandlerNeverChecked ==
    (SweepReturned /\ decl.kind \in {"DistributedTargetInvocationDecoder",
                                     "DistributedTargetInvocationResultHandler"})
      => ~last.ret /\ last.diags = NoDiags

C25_Witness ==
    /\ SweepReturned
    /\ decl.kind = "DistributedTargetInvocationDecoder"
    /\ decl.members = <<>>
    /\ last.diagnose
    /\ ~last.ret
    /\ last.diags = NoDiags

(***************************************************************************)
(* The two operations of the actor-system sweep.                           *)
(***************************************************************************)
DiagsAbout(diags, op) ==
    SelectSeq(diags, LAMBDA g : g.what = op)

\* the declaration with the members of that name only
OnlyMembersNamed(d, op) ==
    [d EXCEPT !.members = SelectSeq(d.members, LAMBDA m : m.name = op)]

\* what a sweep of the declaration alone, nothing cached, emits
FreshSweepDiags(d, diagnose) ==
    checkDistributedActorSystemAdHocProtocolRequirements(
      [cache |-> EmptyCache, scans |-> [op \in AllOps |-> 0]], <<>>, d,
      moduleLoaded, d.kind, diagnose).diags

====
